---- MODULE Spec2Model ----
(***************************************************************************)
(* A model of src/main.rs: a specs World with four component storages,     *)
(* the MovementSystem and the LifetimeSystem, the dispatcher that runs     *)
(* both of them in one parallel stage, and the tetra State callbacks       *)
(* update and draw.                                                        *)
(*                                                                         *)
(* A component storage is a mask (the set of entities that have the        *)
(* component) and a data vector; a join walks the intersection of the      *)
(* masks in increasing entity order.  Entities::delete only sets the       *)
(* entity's bit in the atomic "killed" set of the allocator: the entity    *)
(* and its components are removed by World::maintain, which main.rs never  *)
(* calls.                                                                  *)
(***************************************************************************)
EXTENDS Integers, FiniteSets, Sequences, TLC

SPRITE_SIZE == 20
SCREEN_SIZE == 20
INITIAL_TAIL == 5

\* Bounds of the model.
MaxTicks == 22
MaxLife == 2
VExtra == 1

\* The two entities built by GameState::new, in creation order.
EntityIds == {1, 2}

Components == {"Position", "Velocity", "Lifetime", "Sprite"}
Systems == {"movement", "lifetime"}

Vec2(a, b) == [x |-> a, y |-> b]
Rectangle(a, b, c, d) == [x |-> a, y |-> b, width |-> c, height |-> d]

VARIABLES
    alive,      \* entities the allocator holds alive
    killed,     \* entities marked by Entities::delete, pending a maintain
    mask,       \* mask[c]: the entities that have component c
    position,   \* data of the Position storage
    velocity,   \* data of the Velocity storage
    lifetime,   \* data of the Lifetime storage
    sprite,     \* data of the Sprite storage
    pc,         \* the game loop: "idle" or inside "update"
    syspc,      \* per system: "idle", "ready", "running", "done"
    cursor,     \* per system: the last entity its join yielded
    visits,     \* per system and entity: loop bodies run in this tick
    runs,       \* per system: completed runs since start
    tick,       \* completed calls of update
    drawn,      \* the draw calls of the latest draw, in order
    created,    \* the component values each entity was built with
    horizon     \* number of ticks explored

vars == <<alive, killed, mask, position, velocity, lifetime, sprite, pc,
          syspc, cursor, visits, runs, tick, drawn, created, horizon>>

world == <<alive, killed, mask, position, velocity, lifetime, sprite>>

----------------------------------------------------------------------------
\* Rust's % on i32: the remainder of truncated division, sign of the dividend.
RustRem(a, b) == IF a >= 0 THEN a % b ELSE -((-a) % b)

WrapNoOffset(p, v) == RustRem(p + v, SCREEN_SIZE)

WrapNoRem(p, v) == p + v

\* One axis of the loop body of MovementSystem::run.
Wrap(p, v) == RustRem(p + v + SCREEN_SIZE, SCREEN_SIZE)

Move(p, v) == Vec2(Wrap(p.x, v.x), Wrap(p.y, v.y))

InGrid(p) == /\ 0 <= p.x /\ p.x < SCREEN_SIZE
             /\ 0 <= p.y /\ p.y < SCREEN_SIZE

----------------------------------------------------------------------------
WritesPositionToo(s) == {"Position"} \cup (IF s = "movement" THEN {} ELSE {"Lifetime"})

\* SystemData of the two systems.
Writes(s) == IF s = "movement" THEN {"Position"} ELSE {"Lifetime"}

Reads(s) == IF s = "movement" THEN {"Velocity"} ELSE {"Entities"}

JoinMaskSkipKilled(s) ==
    IF s = "movement"
    THEN (mask["Position"] \cap mask["Velocity"]) \ killed
    ELSE mask["Lifetime"] \cap alive

JoinMaskNoVelocity(s) ==
    IF s = "movement" THEN mask["Position"] ELSE mask["Lifetime"] \cap alive

\* The storages a join of system s walks.
JoinMask(s) ==
    IF s = "movement"
    THEN mask["Position"] \cap mask["Velocity"]
    ELSE mask["Lifetime"] \cap alive

Pending(s) == {e \in JoinMask(s) : e > cursor[s]}

Min(S) == CHOOSE e \in S : \A o \in S : e <= o

----------------------------------------------------------------------------
NoVec == Vec2(0, 0)

\* GameState::new
Init ==
    /\ alive = {1, 2}
    /\ killed = {}
    /\ mask = [c \in Components |->
                 CASE c = "Position" -> {1, 2}
                   [] c = "Velocity" -> {1}
                   [] c = "Lifetime" -> {1}
                   [] c = "Sprite" -> {1, 2}]
    /\ position = [e \in EntityIds |-> IF e = 1 THEN Vec2(0, 0) ELSE Vec2(2, 0)]
    /\ velocity = [e \in EntityIds |-> IF e = 1 THEN Vec2(1, 0) ELSE NoVec]
    /\ lifetime = [e \in EntityIds |-> IF e = 1 THEN INITIAL_TAIL ELSE 0]
    /\ sprite = [e \in EntityIds |->
                   IF e = 1 THEN Rectangle(0, 0, 1, 1) ELSE Rectangle(0, 1, 1, 1)]
    /\ pc = "idle"
    /\ syspc = [s \in Systems |-> "idle"]
    /\ cursor = [s \in Systems |-> 0]
    /\ visits = [s \in Systems |-> [e \in EntityIds |-> 0]]
    /\ runs = [s \in Systems |-> 0]
    /\ tick = 0
    /\ drawn = <<>>
    /\ created = [pos |-> position, life |-> lifetime,
                  vel |-> velocity, sprite |-> sprite]
    /\ horizon = MaxTicks

----------------------------------------------------------------------------
\* State::update, entry: Dispatcher::dispatch hands both systems to the pool.
UpdateBegin ==
    /\ pc = "idle"
    /\ tick < horizon
    /\ pc' = "update"
    /\ syspc' = [s \in Systems |-> "ready"]
    /\ visits' = [s \in Systems |-> [e \in EntityIds |-> 0]]
    /\ UNCHANGED <<world, cursor, runs, tick, drawn, created, horizon>>

\* A system fetches its SystemData and builds its join iterator.
SystemBegin(s) ==
    /\ syspc[s] = "ready"
    /\ syspc' = [syspc EXCEPT ![s] = "running"]
    /\ cursor' = [cursor EXCEPT ![s] = 0]
    /\ UNCHANGED <<world, pc, visits, runs, tick, drawn, created, horizon>>

Yield(s, e) ==
    /\ cursor' = [cursor EXCEPT ![s] = e]
    /\ visits' = [visits EXCEPT ![s][e] = @ + 1]

MovementStepBounce ==
    /\ syspc["movement"] = "running"
    /\ Pending("movement") # {}
    /\ LET e == Min(Pending("movement"))
           q == Move(position[e], velocity[e]) IN
         /\ position' = [position EXCEPT ![e] = q]
         /\ velocity' = [velocity EXCEPT ![e] =
                            IF q.x < position[e].x THEN Vec2(0 - @.x, @.y) ELSE @]
         /\ Yield("movement", e)
    /\ UNCHANGED <<alive, killed, mask, lifetime, sprite, pc, syspc,
                   runs, tick, drawn, created, horizon>>

\* One iteration of the loop of MovementSystem::run.
MovementStep ==
    /\ syspc["movement"] = "running"
    /\ Pending("movement") # {}
    /\ LET e == Min(Pending("movement")) IN
         /\ position' = [position EXCEPT ![e] = Move(position[e], velocity[e])]
         /\ Yield("movement", e)
    /\ UNCHANGED <<alive, killed, mask, velocity, lifetime, sprite, pc, syspc,
                   runs, tick, drawn, created, horizon>>

DeleteRespawn(e) ==
    /\ killed' = killed \cup {e}
    /\ alive' = alive \cup {Cardinality(EntityIds) + 1}
    /\ UNCHANGED lifetime

DeleteShift(e) ==
    /\ alive' = alive \ {e}
    /\ killed' = killed \cup {e}
    /\ lifetime' = [o \in EntityIds |->
                      IF o < e THEN lifetime[o]
                      ELSE IF o + 1 \in EntityIds THEN lifetime[o + 1] ELSE 0]

\* Entities::delete: an atomic mark; nothing is removed before a maintain.
Delete(e) ==
    /\ killed' = IF e \in alive THEN killed \cup {e} ELSE killed
    /\ UNCHANGED <<alive, lifetime>>

ExpiredNever(n) == FALSE

ExpiredOffByOne(n) == ~(n > 1)

\* The test of the loop body of LifetimeSystem::run, on the counter's value.
Expired(n) == ~(n > 0)

\* One iteration of the loop of LifetimeSystem::run.
LifetimeStep ==
    /\ syspc["lifetime"] = "running"
    /\ Pending("lifetime") # {}
    /\ LET e == Min(Pending("lifetime")) IN
         /\ \/ /\ ~Expired(lifetime[e])
               /\ lifetime' = [lifetime EXCEPT ![e] = @ - 1]
               /\ UNCHANGED <<alive, killed>>
            \/ /\ Expired(lifetime[e])
               /\ Delete(e)
         /\ Yield("lifetime", e)
    /\ UNCHANGED <<mask, position, velocity, sprite, pc, syspc,
                   runs, tick, drawn, created, horizon>>

\* The join is exhausted: run returns and the SystemData is dropped.
SystemEnd(s) ==
    /\ syspc[s] = "running"
    /\ Pending(s) = {}
    /\ syspc' = [syspc EXCEPT ![s] = "done"]
    /\ runs' = [runs EXCEPT ![s] = @ + 1]
    /\ UNCHANGED <<world, pc, cursor, visits, tick, drawn, created, horizon>>

DispatchAnyDone == \E s \in Systems : syspc[s] = "done"

\* dispatch blocks until every system of the stage has returned.
DispatchDone == \A s \in Systems : syspc[s] = "done"

\* State::update, return.
UpdateEnd ==
    /\ pc = "update"
    /\ DispatchDone
    /\ pc' = "idle"
    /\ tick' = tick + 1
    /\ UNCHANGED <<world, syspc, cursor, visits, runs, drawn, created, horizon>>

RECURSIVE DrawCallsUnscaled(_)
DrawCallsUnscaled(S) ==
    IF S = {} THEN <<>>
    ELSE LET e == Min(S) IN
         <<[entity |-> e,
            pos |-> Vec2(position[e].x, position[e].y),
            clip |-> sprite[e],
            scale |-> Vec2(SPRITE_SIZE - 1, SPRITE_SIZE - 1)]>>
         \o DrawCallsUnscaled(S \ {e})

RECURSIVE DrawCalls(_)
\* The loop of State::draw over the ids in S, in increasing order.
DrawCalls(S) ==
    IF S = {} THEN <<>>
    ELSE LET e == Min(S) IN
         <<[entity |-> e,
            pos |-> Vec2(position[e].x * SPRITE_SIZE, position[e].y * SPRITE_SIZE),
            clip |-> sprite[e],
            scale |-> Vec2(SPRITE_SIZE - 1, SPRITE_SIZE - 1)]>>
         \o DrawCalls(S \ {e})

\* State::draw
Draw ==
    /\ pc = "idle"
    /\ drawn' = DrawCalls(mask["Position"] \cap mask["Sprite"])
    /\ UNCHANGED <<world, pc, syspc, cursor, visits, runs, tick, created, horizon>>

Next ==
    \/ UpdateBegin
    \/ \E s \in Systems : SystemBegin(s)
    \/ MovementStep
    \/ LifetimeStep
    \/ \E s \in Systems : SystemEnd(s)
    \/ UpdateEnd
    \/ Draw

Spec == Init /\ [][Next]_vars

\* Everything of the initial state that GameState::new fixes whatever the
\* components it gives to the two entities.
Built(h) ==
    /\ alive = {1, 2}
    /\ killed = {}
    /\ sprite = [e \in EntityIds |->
                   IF e = 1 THEN Rectangle(0, 0, 1, 1) ELSE Rectangle(0, 1, 1, 1)]
    /\ pc = "idle"
    /\ syspc = [s \in Systems |-> "idle"]
    /\ cursor = [s \in Systems |-> 0]
    /\ visits = [s \in Systems |-> [e \in EntityIds |-> 0]]
    /\ runs = [s \in Systems |-> 0]
    /\ tick = 0
    /\ drawn = <<>>
    /\ created = [pos |-> position, life |-> lifetime,
                  vel |-> velocity, sprite |-> sprite]
    /\ horizon = h

PosSamples == {Vec2(2, 0), Vec2(0, SCREEN_SIZE - 1)}
VelSamples == {Vec2(1, 0), Vec2(-1, 1)}

\* GameState::new with other arguments to the builders: each entity with a
\* Position and a Sprite, with or without a Velocity, with or without a
\* Lifetime of 0..MaxLife.  The Velocity slot of an entity without one is
\* memory the VecStorage never initialised: it holds any value.
InitWorld ==
    /\ \E V \in SUBSET EntityIds, L \in SUBSET EntityIds :
         mask = [c \in Components |->
                   CASE c = "Position" -> {1, 2}
                     [] c = "Velocity" -> V
                     [] c = "Lifetime" -> L
                     [] c = "Sprite" -> {1, 2}]
    /\ position \in [EntityIds -> PosSamples]
    /\ velocity \in [EntityIds -> VelSamples \cup {NoVec}]
    /\ \A e \in mask["Velocity"] : velocity[e] \in VelSamples
    /\ lifetime \in [EntityIds -> 0..MaxLife]
    /\ \A e \in EntityIds : e \notin mask["Lifetime"] => lifetime[e] = 0
    /\ Built(MaxLife + 2)

SpecWorld == InitWorld /\ [][Next]_vars

PRange == 0..(SCREEN_SIZE - 1)
VRange == (0 - SCREEN_SIZE - VExtra)..(SCREEN_SIZE + VExtra)

\* The Position and Velocity given to the first entity: one axis over the
\* whole range, the other at rest.
MoveInputs ==
    {<<Vec2(p, 0), Vec2(v, 0)>> : p \in PRange, v \in VRange}
    \cup {<<Vec2(0, p), Vec2(0, v)>> : p \in PRange, v \in VRange}

\* GameState::new with any Position of the grid and any Velocity of up to
\* VExtra more than a whole turn for the first entity, and a Lifetime of 1.
InitMove ==
    /\ mask = [c \in Components |->
                 CASE c = "Position" -> {1, 2}
                   [] c = "Velocity" -> {1}
                   [] c = "Lifetime" -> {1}
                   [] c = "Sprite" -> {1, 2}]
    /\ \E in \in MoveInputs :
         /\ position = [e \in EntityIds |-> IF e = 1 THEN in[1] ELSE Vec2(2, 0)]
         /\ velocity = [e \in EntityIds |-> IF e = 1 THEN in[2] ELSE NoVec]
    /\ lifetime = [e \in EntityIds |-> IF e = 1 THEN 1 ELSE 0]
    /\ Built(2)

SpecMove == InitMove /\ [][Next]_vars

----------------------------------------------------------------------------
HasAll(e) == \A c \in Components : e \in mask[c]

Moved(e) == visits["movement"][e]' = visits["movement"][e] + 1

\* C1: after one pass of MovementSystem::run, whatever the integer Position
\* and Velocity, each axis of the Position of every entity that has both
\* lies in [0, SCREEN_SIZE).
C1_InGridAfterOnePass ==
    (tick = 0 /\ syspc["movement"] = "done")
        => \A e \in mask["Position"] \cap mask["Velocity"] : InGrid(position[e])

\* C2: between ticks, an entity created with Lifetime N has counter N - k
\* after tick k <= N, still exists with all its components after tick N, and
\* is gone from the world after tick N + 1.
C2_DestroyedAfterNPlusOneTicks ==
    \A e \in mask["Lifetime"] :
        pc = "idle" =>
            /\ tick <= created.life[e] =>
                   /\ lifetime[e] = created.life[e] - tick
                   /\ e \in alive
            /\ tick >= created.life[e] + 1 =>
                   /\ e \notin alive
                   /\ \A c \in Components : e \notin mask[c]

\* C3, as stated: after 5 calls of update entity 1 is removed from the world
\* and entity 2 still exists.
C3_Entity1RemovedAfter5Ticks ==
    (pc = "idle" /\ tick = INITIAL_TAIL) => (1 \notin alive /\ 2 \in alive)

\* C3, amended: after 5 calls of update entity 1 still exists with all its
\* components, its Lifetime counter is 0 and it is not yet marked for
\* destruction; entity 2 still exists.  The mark is set by the 6th call.
C3_Entity1ExpiredAfter5Ticks ==
    /\ (pc = "idle" /\ tick = INITIAL_TAIL) =>
           /\ 1 \in alive /\ HasAll(1)
           /\ lifetime[1] = 0
           /\ 1 \notin killed
           /\ 2 \in alive
    /\ (pc = "idle" /\ tick > INITIAL_TAIL) => 1 \in killed

C3_Witness ==
    pc = "idle" /\ tick = INITIAL_TAIL /\ lifetime[1] = 0 /\ created.life[1] = INITIAL_TAIL

\* C4: between ticks, an entity that LifetimeSystem::run has marked for
\* destruction is no longer in the world and has no component left in any
\* storage (so that no join yields it to the movement system or to draw).
C4_MarkedEntityIsRemoved ==
    \A e \in killed :
        pc = "idle" => (e \notin alive /\ \A c \in Components : e \notin mask[c])

\* C5: a step of the movement loop on an entity with Position p in the grid
\* and Velocity v with both axes in [-20, 20] leaves it at the mathematical
\* (p + v) mod 20 on each axis.
C5_ToroidalWrap ==
    [][\A e \in EntityIds :
         (/\ Moved(e)
          /\ InGrid(position[e])
          /\ velocity[e].x \in (0 - SCREEN_SIZE)..SCREEN_SIZE
          /\ velocity[e].y \in (0 - SCREEN_SIZE)..SCREEN_SIZE)
         => position'[e] = Vec2((position[e].x + velocity[e].x) % SCREEN_SIZE,
                                (position[e].y + velocity[e].y) % SCREEN_SIZE)]_vars

\* Position (19, 0) with Velocity (1, 0) is at (0, 0) after the first tick's
\* movement pass.
C5_Witness ==
    /\ tick = 0 /\ syspc["movement"] = "done"
    /\ created.pos[1] = Vec2(SCREEN_SIZE - 1, 0)
    /\ velocity[1] = Vec2(1, 0)
    /\ position[1] = Vec2(0, 0)

\* C6: an entity without a Velocity component is, in every reachable state,
\* at the Position it was created with.
C6_NoVelocityNoMove ==
    \A e \in mask["Position"] \ mask["Velocity"] : position[e] = created.pos[e]

\* Entity 2, without Velocity, is still at (2, 0) after the tick in which
\* entity 1 was marked for destruction and moved.
C6_Witness ==
    /\ pc = "idle" /\ tick >= 1
    /\ 1 \in killed /\ 1 \in mask["Velocity"]
    /\ 2 \notin mask["Velocity"]
    /\ created.pos[2] = Vec2(2, 0) /\ position[2] = Vec2(2, 0)

DestroyedNow == killed' \ killed

\* C7: the step that marks an entity for destruction changes no component
\* value, no mask bit and no liveness of any other entity, and every pass
\* that completes has run its loop body exactly once on every unmarked
\* entity of its join and never on an entity outside it.
C7_DestructionLeavesOthersAlone ==
    [][/\ DestroyedNow # {} =>
            \A o \in EntityIds \ DestroyedNow :
                /\ position'[o] = position[o]
                /\ velocity'[o] = velocity[o]
                /\ lifetime'[o] = lifetime[o]
                /\ sprite'[o] = sprite[o]
                /\ (o \in alive') = (o \in alive)
                /\ \A c \in Components : (o \in mask'[c]) = (o \in mask[c])
       /\ syspc'["movement"] = "done" =>
            \A o \in EntityIds \ killed' :
                visits'["movement"][o] =
                    IF o \in mask'["Position"] \cap mask'["Velocity"] THEN 1 ELSE 0
       /\ syspc'["lifetime"] = "done" =>
            \A o \in EntityIds \ killed' :
                visits'["lifetime"][o] =
                    IF o \in mask'["Lifetime"] THEN 1 ELSE 0]_vars

\* In a tick after the one that marked entity 1, both passes have visited
\* entity 2 once.
C7_Witness ==
    /\ tick >= 1 /\ pc = "update"
    /\ 1 \in killed /\ 2 \notin killed
    /\ 2 \in mask["Lifetime"] \cap mask["Velocity"]
    /\ \A s \in Systems : syspc[s] = "done" /\ visits[s][2] = 1

Resources == Components \cup {"Entities"}

Writers(r) == {s \in Systems : syspc[s] = "running" /\ r \in Writes(s)}
Readers(r) == {s \in Systems : syspc[s] = "running" /\ r \in Reads(s)}

Exclusive ==
    \A r \in Resources :
        /\ Cardinality(Writers(r)) <= 1
        /\ Writers(r) # {} => Readers(r) = {}

\* C8: while the systems of a tick run, no storage has two writers or a
\* writer and a reader; Position is written only under the movement
\* system's write borrow, Lifetime and the deletion marks only by the
\* running lifetime system; Velocity, Sprite, the masks and the set of live
\* entities are written by neither.
C8_ReaderWriterExclusion ==
    [][/\ Exclusive /\ Exclusive'
       /\ position' # position => Writers("Position") = {"movement"}
       /\ lifetime' # lifetime => Writers("Lifetime") = {"lifetime"}
       /\ killed' # killed =>
            (syspc["lifetime"] = "running" /\ "Entities" \in Reads("lifetime"))
       /\ UNCHANGED <<velocity, sprite, mask, alive>>]_vars

\* Both systems are inside run at once, each having written.
C8_Witness ==
    /\ \A s \in Systems : syspc[s] = "running" /\ visits[s][1] = 1
    /\ position[1] # created.pos[1]
    /\ lifetime[1] # created.life[1]

\* C9: from the program's initial configuration, the Position of every
\* existing entity is in the grid in every reachable state.
C9_PositionInGrid ==
    \A e \in alive \cap mask["Position"] : InGrid(position[e])

\* Entity 1 has gone round the grid and is back at column 0.
C9_Witness == tick >= SCREEN_SIZE /\ position[1] = Vec2(0, 0)

\* C10: between calls of update (where the next update or a draw begins) no
\* system is running and each has completed exactly one run per call made;
\* inside a call each has completed its run of this call or not yet.
C10_TickRunsToCompletion ==
    /\ pc = "idle" =>
           \A s \in Systems : syspc[s] \in {"idle", "done"} /\ runs[s] = tick
    /\ pc = "update" =>
           \A s \in Systems :
               runs[s] = IF syspc[s] = "done" THEN tick + 1 ELSE tick

C10_Witness ==
    pc = "idle" /\ tick = 2 /\ \A s \in Systems : syspc[s] = "done" /\ runs[s] = 2

\* C11: every existing entity created with a Velocity has, in every reachable
\* state, the Velocity it was created with, and every existing entity created
\* with a Sprite the Sprite region it was created with.
C11_VelocityAndSpriteConstant ==
    \A e \in alive :
        /\ e \in mask["Velocity"] => velocity[e] = created.vel[e]
        /\ e \in mask["Sprite"] => sprite[e] = created.sprite[e]

\* Entity 1 has been moved round the grid, marked and drawn, with the
\* Velocity and Sprite it was built with.
C11_Witness ==
    /\ pc = "idle" /\ tick > SCREEN_SIZE /\ 1 \in killed /\ drawn # <<>>
    /\ velocity[1] = Vec2(1, 0) /\ sprite[1] = Rectangle(0, 0, 1, 1)

\* C12: the existing entities are always among the two that GameState::new
\* built, and no step adds an entity to them.
C12_NoEntityCreated ==
    [][/\ alive \subseteq EntityIds
       /\ alive' \subseteq alive]_vars

\* Ticks have run past the first call of Entities::delete.
C12_Witness ==
    pc = "idle" /\ tick > INITIAL_TAIL + 1 /\ 1 \in killed /\ alive \subseteq {1, 2}

Aged(e) == visits["lifetime"][e]' = visits["lifetime"][e] + 1

\* C13: the Lifetime counter of every entity is never negative (the usize
\* never wraps below 0) and no step increases it; a step of the lifetime loop
\* on an entity takes exactly one from a counter above 0 and leaves a counter
\* of 0 at 0, on the tick that first finds it 0 and on every later one.
C13_LifetimeCountsDownToZero ==
    [][\A e \in mask["Lifetime"] :
         /\ lifetime[e] >= 0 /\ lifetime'[e] >= 0
         /\ lifetime'[e] <= lifetime[e]
         /\ Aged(e) =>
              lifetime'[e] = IF lifetime[e] > 0 THEN lifetime[e] - 1 ELSE 0]_vars

\* In the second tick the lifetime pass has revisited entity 1, at 0 since
\* its creation, and has brought entity 2 down from 2 to 0.
C13_Witness ==
    /\ tick = 1 /\ syspc["lifetime"] = "done"
    /\ {1, 2} \subseteq mask["Lifetime"]
    /\ created.life[1] = 0 /\ 1 \in killed
    /\ visits["lifetime"][1] = 1 /\ lifetime[1] = 0
    /\ created.life[2] = 2 /\ visits["lifetime"][2] = 1 /\ lifetime[2] = 0

RECURSIVE PositionAfter(_, _)
\* The Position of e after k ticks run one system after the other.
PositionAfter(e, k) ==
    IF k = 0 THEN created.pos[e]
    ELSE IF e \in mask["Position"] \cap mask["Velocity"]
         THEN Move(PositionAfter(e, k - 1), created.vel[e])
         ELSE PositionAfter(e, k - 1)

RECURSIVE LifetimeAfter(_, _)
LifetimeAfter(e, k) ==
    IF k = 0 THEN created.life[e]
    ELSE IF e \in mask["Lifetime"] /\ LifetimeAfter(e, k - 1) > 0
         THEN LifetimeAfter(e, k - 1) - 1
         ELSE LifetimeAfter(e, k - 1)

KilledAfter(k) ==
    {e \in mask["Lifetime"] : \E j \in 0..(k - 1) : LifetimeAfter(e, j) = 0}

\* C14: between ticks the world is the one that k ticks with the movement
\* pass run wholly before the lifetime pass produce, whatever the order and
\* interleaving of the two systems' steps in each of the k ticks: an entity
\* marked in a tick has also been moved in that tick.
C14_TickOutcomeIndependentOfOrder ==
    pc = "idle" =>
        /\ position = [e \in EntityIds |-> PositionAfter(e, tick)]
        /\ lifetime = [e \in EntityIds |-> LifetimeAfter(e, tick)]
        /\ killed = KilledAfter(tick)
        /\ alive = EntityIds
        /\ velocity = created.vel
        /\ sprite = created.sprite

\* After the tick that marked entity 1, entity 1 has moved.
C14_Witness ==
    /\ pc = "idle" /\ tick = 1
    /\ created.life[1] = 0 /\ 1 \in killed
    /\ 1 \in mask["Velocity"] /\ position[1] # created.pos[1]

\* The window that main opens, in pixels on each axis.
WindowSize == SPRITE_SIZE * SCREEN_SIZE

OnScreen(c) ==
    /\ 0 <= c.pos.x /\ c.pos.x + c.scale.x <= WindowSize
    /\ 0 <= c.pos.y /\ c.pos.y + c.scale.y <= WindowSize

\* C15: a draw that changes what is on screen happens between ticks, leaves
\* every entity, component and system as it was, and issues exactly one draw
\* call for each entity that has Position and Sprite and none for any other,
\* with that entity's clip region, at SPRITE_SIZE times its Position, inside
\* the window.
C15_DrawReadsOnly ==
    [][drawn' # drawn =>
         /\ pc = "idle"
         /\ UNCHANGED <<world, pc, syspc, cursor, visits, runs, tick>>
         /\ \A e \in EntityIds :
              Cardinality({i \in 1..Len(drawn') : drawn'[i].entity = e})
                  = IF e \in mask["Position"] \cap mask["Sprite"] THEN 1 ELSE 0
         /\ \A i \in 1..Len(drawn') :
              /\ drawn'[i].pos = Vec2(position[drawn'[i].entity].x * SPRITE_SIZE,
                                      position[drawn'[i].entity].y * SPRITE_SIZE)
              /\ drawn'[i].clip = sprite[drawn'[i].entity]
              /\ OnScreen(drawn'[i])]_vars

\* Entity 1 is drawn in the last column, entity 2 in its place.
C15_Witness ==
    /\ pc = "idle" /\ tick = SCREEN_SIZE - 1
    /\ Len(drawn) = 2
    /\ drawn[1].entity = 1
    /\ drawn[1].pos = Vec2((SCREEN_SIZE - 1) * SPRITE_SIZE, 0)
    /\ drawn[2].entity = 2
    /\ drawn[2].pos = Vec2(2 * SPRITE_SIZE, 0)

====
